---- MODULE Spec2Model ----
(***************************************************************************)
(* AttendanceLagao (PunchPro): a browser time-tracking dashboard.          *)
(*                                                                         *)
(* The model follows src/App.tsx (the App component: punch store in React  *)
(* state and localStorage, the memoised aggregation, the insight button)   *)
(* and src/unnamed/part_000 (getWorkInsights).                             *)
(*                                                                         *)
(* Units.  Timestamps are milliseconds since the epoch, as in the code.    *)
(* A date string 'YYYY-MM-DD' is represented by its day number since       *)
(* 1970-01-01.  WorkDay.totalHours is kept in hundredths of an hour (the   *)
(* value after toFixed(2)); the two dashboard figures are kept in tenths   *)
(* of an hour (the value after toFixed(1)).                                *)
(***************************************************************************)
EXTENDS Integers, Sequences, FiniteSets

VARIABLES
    now,                  \* Date.now(): the wall clock, ms since the epoch
    tz,                   \* the browser's local zone, ms east of UTC
    storage,              \* localStorage[STORAGE_KEY]
    punches,              \* useState<PunchEntry[]>
    punchesShape,         \* what kind of value punches holds: an array, or the
                          \* empty string a saved '""' is parsed to
    pc,                   \* where the component is: mounting (first render
                          \* committed, its effects not yet run), loaded (the
                          \* load effect's update queued), committed (that
                          \* update rendered, its save effect not yet run),
                          \* ready, crashed (a render threw: nothing is mounted)
    pending,              \* the updates of punches that are queued and not
                          \* rendered yet: the value the load effect set and the
                          \* entries of the clicks queued behind it; <<>> when
                          \* none is queued
    activeTab,            \* useState<'dashboard' | 'history' | 'insights'>
    workDaysMemo,         \* the value useMemo holds for workDaysData
    statsMemo,            \* the value useMemo holds for stats
    aiInsight,            \* useState<AIInsight | null>
    isGeneratingInsight,  \* useState(false)
    outstanding,          \* getWorkInsights calls awaiting their response
    insightQueued,        \* the updates a completed fetchAIInsights queued and
                          \* no render has taken yet: <<>> when none is queued
    lastResponse,         \* history: the response behind the updates of
                          \* fetchAIInsights that were rendered last
    nextId,               \* number of ids crypto.randomUUID() has handed out
    beforeRestart         \* history: the list held when the page was reloaded

vars == <<now, tz, storage, punches, punchesShape, pc, pending, activeTab,
          workDaysMemo, statsMemo, aiInsight, isGeneratingInsight, outstanding,
          insightQueued, lastResponse, nextId, beforeRestart>>

----------------------------------------------------------------------------
(* Bounds of the model *)

MaxPunches == 3

MaxListLen == 4

----------------------------------------------------------------------------
(* Time *)

HOUR_MS == 1000 * 60 * 60

DAY_MS == 24 * HOUR_MS

WEEK_MS == 7 * 24 * 60 * 60 * 1000

\* The instants at which punches are stamped: 09:00, 12:03, 17:03:18 and 23:00
\* of day 0, and 01:00 of day 7.  From 09:00 to 12:03 are 3.05 hours and from
\* 12:03 to 17:03:18 are 5.005 hours: quotients half-way between two of the
\* decimals toFixed chooses from.
PunchTimes ==
    {9 * HOUR_MS, 12 * HOUR_MS + 180000, 17 * HOUR_MS + 198000, 23 * HOUR_MS,
     7 * DAY_MS + HOUR_MS}

\* The instants at which the aggregation is read: 13:00 of day 0, 23:00 of
\* day 6 and 09:00 of day 7.
NowTimes == {13 * HOUR_MS, 6 * DAY_MS + 23 * HOUR_MS, 7 * DAY_MS + 9 * HOUR_MS}

\* The instants the clock of the running application passes through: 09:00
\* and 12:03 of day 0.
ClockTimes == {9 * HOUR_MS, 12 * HOUR_MS + 180000}

\* Local zones: UTC and UTC+05:30.
TZOffsets == {0, 11 * (HOUR_MS \div 2)}

\* new Date(ts).toISOString().split('T')[0]: the UTC calendar date of ts.
ISODate(ts) == ts \div DAY_MS

\* new Date('YYYY-MM-DD').getTime(): a date-only string parses as UTC midnight.
DateParse(date) == date * DAY_MS

----------------------------------------------------------------------------
(* Number formatting *)

(* The code computes with IEEE-754 doubles and formats them with toFixed,   *)
(* which rounds the exact value of the double: of two decimals equally near *)
(* to the real quotient, the one chosen is decided by the side on which the *)
(* double lies.  A double near the fraction A / Q is kept as that fraction  *)
(* and its distance from it: the double is A / Q + d / (Q * 2^60).          *)

RECURSIVE Pow2(_)
Pow2(k) == IF k = 0 THEN 1 ELSE 2 * Pow2(k - 1)

\* 2^e modulo m.
RECURSIVE ModPow2(_, _)
ModPow2(e, m) == IF e = 0 THEN 1 % m ELSE (2 * ModPow2(e - 1, m)) % m

RECURSIVE ExponentAbove(_, _, _)
ExponentAbove(A, Q, k) ==
    IF Q * Pow2(k + 1) <= A THEN ExponentAbove(A, Q, k + 1) ELSE k

RECURSIVE ExponentBelow(_, _, _)
ExponentBelow(A, Q, j) ==
    IF A * Pow2(j) < Q THEN ExponentBelow(A, Q, j + 1) ELSE j

\* The binary exponent k of a positive value v = A / Q + d / (Q * 2^60):
\* 2^k <= v < 2^(k+1).
BinaryExponent(A, d, Q) ==
    IF A >= Q
    THEN LET k == ExponentAbove(A, Q, 0)
         IN IF A = Q * Pow2(k) /\ d < 0 THEN k - 1 ELSE k
    ELSE LET j == ExponentBelow(A, Q, 1)
         IN IF A * Pow2(j) = Q /\ d < 0 THEN 0 - (j + 1) ELSE 0 - j

\* Rounding to 53 significant bits, to nearest and on a tie to the even
\* significand, of the positive value A / Q + d / (Q * 2^60): the distance of
\* the result from A / Q.  The value is reduced modulo two units in the last
\* place, which is all the rounding depends on.

\* Two units in the last place of a value of binary exponent s - 9, in units
\* of 1 / (Q * 2^60).
TwoUlp(Q, s) == IF s >= 0 THEN Q * Pow2(s) ELSE Q \div Pow2(0 - s)

\* A / Q modulo two units in the last place, in the same units.
ResidueOfQuotient(A, Q, s, twoUlp) ==
    IF s >= 0
    THEN Pow2(s) * (((A % Q) * ModPow2(60 - s, Q)) % Q)
    ELSE ((A % twoUlp) * ModPow2(60, twoUlp)) % twoUlp

\* low is the value modulo two units and rest its part beyond the unit below:
\* down when rest is under half a unit, or half a unit above an even
\* significand; up otherwise.
RoundOff(d, ulp, low, rest) ==
    IF 2 * rest < ulp \/ (2 * rest = ulp /\ low < ulp)
    THEN d - rest
    ELSE d + (ulp - rest)

RoundResidue(d, ulp, low) == RoundOff(d, ulp, low, low % ulp)

RoundAtExponent(A, d, Q, s, twoUlp) ==
    RoundResidue(d, twoUlp \div 2, (ResidueOfQuotient(A, Q, s, twoUlp) + d) % twoUlp)

RoundToSignificand(A, d, Q, s) == RoundAtExponent(A, d, Q, s, TwoUlp(Q, s))

NearestDoublePositive(A, d, Q) ==
    RoundToSignificand(A, d, Q, 9 + BinaryExponent(A, d, Q))

\* The same for a value of either sign; a value whose fraction is 0 is a
\* double already.
NearestDouble(A, d, Q) ==
    IF A = 0 THEN d
    ELSE IF A < 0 THEN 0 - NearestDoublePositive(0 - A, 0 - d, Q)
    ELSE NearestDoublePositive(A, d, Q)

\* x.toFixed(f) for the double x = A / Q + d / (Q * 2^60), as the integer n
\* with n / scale the decimal printed (scale = 10^f): n / scale is nearest to
\* x, and of two that are equally near the larger in magnitude.
RECURSIVE ToFixed(_, _, _, _)
ToFixed(A, d, Q, scale) ==
    IF A = 0 THEN 0
    ELSE IF A < 0 THEN 0 - ToFixed(0 - A, 0 - d, Q, scale)
    ELSE LET n == (2 * scale * A + Q) \div (2 * Q)
         IN IF (2 * scale * A + Q) % (2 * Q) = 0 /\ d < 0 THEN n - 1 ELSE n

\* parseFloat((totalMs / (1000 * 60 * 60)).toFixed(2)), in hundredths of an
\* hour.  The quotient lies half-way between two hundredths when it is an odd
\* number of two-hundredths; the double nearest to it then decides.
RECURSIVE ToFixed2Hours(_)
ToFixed2Hours(totalMs) ==
    IF totalMs < 0 THEN 0 - ToFixed2Hours(0 - totalMs)
    ELSE LET half == HOUR_MS \div 200
             n == (totalMs + half) \div (2 * half)
         IN IF (totalMs + half) % (2 * half) = 0 /\ NearestDouble(2 * n - 1, 0, 200) < 0
            THEN n - 1
            ELSE n

----------------------------------------------------------------------------
(* The aggregation: workDaysData *)

Types == {"IN", "OUT"}

Front(s) == SubSeq(s, 1, Len(s) - 1)

Last(s) == s[Len(s)]

Reverse(s) == [i \in 1..Len(s) |-> s[Len(s) + 1 - i]]

\* Insert p behind every element whose timestamp is not larger.
RECURSIVE InsertByTimestamp(_, _)
InsertByTimestamp(sorted, p) ==
    IF sorted = <<>> THEN <<p>>
    ELSE IF Last(sorted).timestamp - p.timestamp <= 0
         THEN Append(sorted, p)
         ELSE Append(InsertByTimestamp(Front(sorted), p), Last(sorted))

\* The list left in the order it is stored in.
UnsortedPunches(list) == list

\* [...punches].sort((a, b) => a.timestamp - b.timestamp): Array.prototype.sort
\* is stable, so equal timestamps keep the order the list stores them in.
RECURSIVE SortByTimestamp(_)
SortByTimestamp(list) ==
    IF list = <<>> THEN <<>>
    ELSE InsertByTimestamp(SortByTimestamp(Front(list)), Last(list))

\* days[date].punches.push(p), creating days[date] when it is missing.
PushPunch(days, p) ==
    LET date == ISODate(p.timestamp)
        at == {i \in 1..Len(days) : days[i].date = date}
    IN IF at = {}
       THEN Append(days, [date |-> date, punches |-> <<p>>, totalHours |-> 0])
       ELSE [i \in 1..Len(days) |->
                IF i \in at
                THEN [days[i] EXCEPT !.punches = Append(@, p)]
                ELSE days[i]]

\* sortedPunches.forEach(...): the days in the order their keys were created.
RECURSIVE GroupByDate(_)
GroupByDate(sorted) ==
    IF sorted = <<>> THEN <<>>
    ELSE PushPunch(GroupByDate(Front(sorted)), Last(sorted))

\* startTime is null (<<>>) or a number (<<t>>); a condition on it is true for a
\* number other than 0.
Truthy(startTime) == startTime # <<>> /\ startTime[1] # 0

\* day.punches.forEach(...): the pairing of IN with the next OUT.
RECURSIVE PairPunches(_)
PairPunches(ps) ==
    IF ps = <<>> THEN [totalMs |-> 0, startTime |-> <<>>]
    ELSE LET acc == PairPunches(Front(ps))
             p == Last(ps)
         IN IF p.type = "IN"
            THEN [acc EXCEPT !.startTime = <<p.timestamp>>]
            ELSE IF p.type = "OUT" /\ Truthy(acc.startTime)
                 THEN [totalMs |-> acc.totalMs + (p.timestamp - acc.startTime[1]),
                       startTime |-> <<>>]
                 ELSE acc

\* The open session credited whatever the day.
CreditAnyDay(acc, date, clock) ==
    IF Truthy(acc.startTime)
    THEN acc.totalMs + (clock - acc.startTime[1])
    ELSE acc.totalMs

\* The open session is credited up to the clock when the day is today's UTC date.
CreditOpenSession(acc, date, clock) ==
    IF Truthy(acc.startTime) /\ date = ISODate(clock)
    THEN acc.totalMs + (clock - acc.startTime[1])
    ELSE acc.totalMs

\* One day's totalHours.
DayTotalHours(day, clock) ==
    ToFixed2Hours(CreditOpenSession(PairPunches(day.punches), day.date, clock))

\* The useMemo body of workDaysData, read at the instant clock.
workDaysData(list, clock) ==
    LET days == GroupByDate(SortByTimestamp(list))
    IN Reverse([i \in 1..Len(days) |->
                   [days[i] EXCEPT !.totalHours = DayTotalHours(days[i], clock)]])

----------------------------------------------------------------------------
(* The dashboard figures: currentStatus and stats *)

\* The status taken from the other end of the list.
StatusOfOldest(list) ==
    IF Len(list) = 0 THEN "PUNCHED_OUT"
    ELSE IF list[Len(list)].type = "IN" THEN "PUNCHED_IN" ELSE "PUNCHED_OUT"

currentStatus(list) ==
    IF Len(list) = 0 THEN "PUNCHED_OUT"
    ELSE IF list[1].type = "IN" THEN "PUNCHED_IN" ELSE "PUNCHED_OUT"

\* workDaysData.filter(d => Date.now() - new Date(d.date).getTime() < 7 days)
thisWeek(workDays, clock) ==
    SelectSeq(workDays, LAMBDA d : clock - DateParse(d.date) < WEEK_MS)

\* reduce((acc, curr) => acc + curr.totalHours, 0): the sum in doubles, each
\* totalHours being the double nearest to its two-decimal text.  The sum is
\* the double hundredths / 100 + d / (100 * 2^60).
RECURSIVE SumHours(_)
SumHours(days) ==
    IF days = <<>> THEN [hundredths |-> 0, d |-> 0]
    ELSE LET acc == SumHours(Front(days))
             hours == Last(days).totalHours
             sum == acc.hundredths + hours
         IN [hundredths |-> sum,
             d |-> NearestDouble(sum, acc.d + NearestDouble(hours, 0, 100), 100)]

\* The useMemo body of stats, the two figures in tenths of an hour.
\* lastPunch is <<>> for null.
stats(list, workDays, status, clock) ==
    LET week == thisWeek(workDays, clock)
        totalHoursThisWeek == SumHours(week)
        count == 100 * Len(week)
    IN [totalHoursThisWeek |->
            ToFixed(totalHoursThisWeek.hundredths, totalHoursThisWeek.d, 100, 10),
        averageDailyHours |->
            IF Len(week) > 0
            THEN ToFixed(totalHoursThisWeek.hundredths,
                         NearestDouble(totalHoursThisWeek.hundredths,
                                       totalHoursThisWeek.d, count),
                         count, 10)
            ELSE 0,
        lastPunch |-> IF Len(list) > 0 THEN <<list[1]>> ELSE <<>>,
        status |-> status]

----------------------------------------------------------------------------
(* localStorage and JSON *)

\* What localStorage holds under STORAGE_KEY is a text; the model keeps what the
\* text denotes: no entry, the empty text, a text that is not JSON, or a JSON
\* value: null, an object, the empty string (json_empty_string), an array with an
\* element that has no timestamp to make a date of (json_bad_records), an
\* array of records with a timestamp.
ABSENT == [tag |-> "absent", items |-> <<>>]

\* The type of a record whose "type" is a JSON object.
OBJECT == "OBJECT"

\* An array of one record that has a timestamp and is no punch: its type is
\* neither IN nor OUT and its id is none the application hands out.
FOREIGN_RECORDS == [tag |-> "json_array", items |-> << <<0, "X", 5>> >>]

\* The same with a type that is an object.
OBJECT_TYPED_RECORDS == [tag |-> "json_array", items |-> << <<0, OBJECT, 5>> >>]

ForeignStored ==
    {[tag |-> t, items |-> <<>>] :
        t \in {"empty_text", "unparseable", "json_null", "json_object", "json_empty_string",
               "json_bad_records"}}
    \cup {FOREIGN_RECORDS, OBJECT_TYPED_RECORDS}

\* JSON.stringify(punches): one {"id":..,"type":..,"timestamp":..} per entry
\* of an array, '""' for the empty string.
JSON_stringify(value) ==
    [tag |-> value.shape,
     items |-> [i \in 1..Len(value.list) |->
                  <<value.list[i].id, value.list[i].type, value.list[i].timestamp>>]]

\* A punches value that is an array.
ArrayOf(list) == [shape |-> "json_array", list |-> list]

\* JSON.parse(saved) for a text that is JSON.
JSON_parse(saved) ==
    [shape |-> saved.tag,
     list |-> [i \in 1..Len(saved.items) |->
                  [id |-> saved.items[i][1],
                   type |-> saved.items[i][2],
                   timestamp |-> saved.items[i][3]]]]

\* The load effect reading what the save effect of the first render wrote.
LoadAfterSave(saved) == <<JSON_parse(JSON_stringify(ArrayOf(<<>>)))>>

\* The load effect: the value handed to setPunches, <<>> when it hands none
\* (no saved text, or JSON.parse threw and the catch logged it).
LoadEffect(saved) ==
    IF saved.tag \in {"absent", "empty_text"} THEN <<>>
    ELSE IF saved.tag = "unparseable" THEN <<>>
    ELSE <<JSON_parse(saved)>>

\* The save effect: what it writes for the value of the render it belongs to.
SaveEffect(value) == JSON_stringify(value)

----------------------------------------------------------------------------
(* The insight client: getWorkInsights *)

NULL_INSIGHT == [shape |-> "null", origin |-> "none"]

FALLBACK_INSIGHT == [shape |-> "AIInsight", origin |-> "fallback"]

\* What a call of getWorkInsights can meet: no client (new GoogleGenAI throws,
\* outside the try), no response, a text that is not JSON, no text, a JSON
\* value that is falsy (null), a JSON value the insights tab cannot render (no
\* recommendations array), an object it can render that is off the schema (a
\* score that is no percentage), an AIInsight.
Responses ==
    {"no_client", "network_error", "not_json", "empty_text", "json_null",
     "unrenderable", "off_schema", "well_shaped"}

\* The promise of getWorkInsights rejected.
REJECTED == [shape |-> "rejected", origin |-> "none"]

\* const ai = new GoogleGenAI(..)
\* try { response = await generateContent(..); return JSON.parse(response.text || '{}') }
\* catch { return fallback }
getWorkInsights(response) ==
    CASE response = "no_client" -> REJECTED
      [] response = "network_error" -> FALLBACK_INSIGHT
      [] response = "not_json" -> FALLBACK_INSIGHT
      [] response = "empty_text" -> [shape |-> "empty_object", origin |-> "service"]
      [] response = "json_null" -> NULL_INSIGHT
      [] response = "unrenderable" -> [shape |-> "unrenderable", origin |-> "service"]
      [] response = "off_schema" -> [shape |-> "off_schema", origin |-> "service"]
      [] response = "well_shaped" -> [shape |-> "AIInsight", origin |-> "service"]

Tabs == {"dashboard", "history", "insights"}

\* Does a render with this punches value on this tab throw, which unmounts the
\* component tree?  null, an object and an array with an element that has no
\* timestamp throw in the memos of every render (punches.length of null,
\* [...punches] of a non-iterable, toISOString of an invalid date).  The empty
\* string passes the memos as the empty list does and throws in the dashboard
\* panel (punches.slice(0, 5).map).  An array of records with a timestamp
\* throws in the history panel when a record's type is an object ({p.type} as
\* a child), and renders otherwise.
RenderThrows(value, tab) ==
    CASE value.shape = "json_array" ->
             tab = "history" /\ \E i \in 1..Len(value.list) : value.list[i].type = OBJECT
      [] value.shape = "json_empty_string" -> tab = "dashboard"
      [] OTHER -> TRUE

\* {aiInsight && (... aiInsight.recommendations.map(...) ...)} on the insights
\* tab: a truthy value without a recommendations array throws in the render.
InsightRenderThrows(insight, tab) ==
    tab = "insights" /\ insight.shape \in {"empty_object", "unrenderable"}

\* The button disabled for lack of data only.
DisabledWithoutData(generating, workDays) == Len(workDays) = 0

\* disabled={isGeneratingInsight || workDaysData.length === 0}
InsightButtonDisabled(generating, workDays) == generating \/ Len(workDays) = 0

----------------------------------------------------------------------------
(* The component *)

\* beforeRestart when no reload of a settled application is under way.
NoHistory == [valid |-> FALSE, list |-> <<>>]

\* The punches value of the last committed render.
PunchesValue == [shape |-> punchesShape, list |-> punches]

\* The values a first render holds: every useState at its initial value, the
\* memos computed from the empty list.
FirstRender ==
    /\ punches' = <<>>
    /\ punchesShape' = "json_array"
    /\ workDaysMemo' = workDaysData(<<>>, now)
    /\ statsMemo' = stats(<<>>, workDaysData(<<>>, now), currentStatus(<<>>), now)
    /\ activeTab' = "dashboard"
    /\ aiInsight' = NULL_INSIGHT
    /\ isGeneratingInsight' = FALSE
    /\ outstanding' = 0
    /\ insightQueued' = <<>>
    /\ lastResponse' = "none"
    /\ pending' = <<>>
    /\ pc' = "mounting"

\* A render with a new punches value: the memos whose dependency changed are
\* recomputed.
RenderPunches(value) ==
    /\ punches' = value.list
    /\ punchesShape' = value.shape
    /\ workDaysMemo' = workDaysData(value.list, now)
    /\ statsMemo' = stats(value.list, workDaysData(value.list, now),
                          currentStatus(value.list), now)

\* handlePunch(type): the new entry goes to the front.
handlePunch(list, type, id, clock) ==
    <<[id |-> id, type |-> type, timestamp |-> clock]>> \o list

\* The header offers Punch Out while stats.status is PUNCHED_IN and Punch In
\* otherwise.
OfferedPunch(status) == IF status = "PUNCHED_IN" THEN "OUT" ELSE "IN"

\* The update of the load effect as it is queued: setPunches(JSON.parse(saved))
\* with no update of a click behind it yet.
Queued(loaded) ==
    IF loaded = <<>> THEN <<>> ELSE <<[set |-> loaded[1], behind |-> <<>>]>>

\* What the queued updates come to when they are rendered: the value the load
\* effect set, and prev => [newPunch, ...prev] of every click queued behind
\* it, in the order of the clicks.  The spread of an array or of the empty
\* string gives an array; null and an object cannot be spread, and an array
\* that cannot be rendered stays one.
RECURSIVE QueuedValue(_, _)
QueuedValue(set, behind) ==
    IF behind = <<>> THEN set
    ELSE LET prev == QueuedValue(set, Front(behind))
             newPunch == Last(behind)
         IN IF prev.shape \in {"json_array", "json_empty_string"}
            THEN ArrayOf(handlePunch(prev.list, newPunch.type, newPunch.id,
                                     newPunch.timestamp))
            ELSE prev

(* The effects of a committed render run in a later task, and at the latest  *)
(* before the next render starts.  After the first render they are the load  *)
(* effect (it reads the saved text and queues setPunches) and the save       *)
(* effect (it writes the empty list of the first render), in that order;     *)
(* after the render of the loaded list it is the save effect.                *)
PendingAfterEffects ==
    IF pc = "mounting" THEN Queued(LoadEffect(storage)) ELSE pending

StorageAfterEffects ==
    IF pc \in {"mounting", "committed"} THEN SaveEffect(PunchesValue) ELSE storage

PcAfterEffects ==
    CASE pc = "mounting" -> IF LoadEffect(storage) = <<>> THEN "ready" ELSE "loaded"
      [] pc = "committed" -> "ready"
      [] OTHER -> pc

\* Where a render leaves the component: nothing mounted when it throws.
PcAfterRender(value, insight, tab) ==
    IF RenderThrows(value, tab) \/ InsightRenderThrows(insight, tab)
    THEN "crashed"
    ELSE PcAfterEffects

\* While the update of the load effect waits with updates of clicks behind
\* it, every render applies the updates of those clicks anew: punches is a
\* new array of the same entries in every render, so that the memos are
\* computed again and the save effect runs again.
PunchesRebuilt == pc = "loaded" /\ pending[1].behind # <<>>

\* The memos and the saved text after a render that sets no punches.
RenderSamePunches ==
    /\ workDaysMemo' = IF PunchesRebuilt THEN workDaysData(punches, now) ELSE workDaysMemo
    /\ statsMemo' = IF PunchesRebuilt
                    THEN stats(punches, workDaysData(punches, now),
                               currentStatus(punches), now)
                    ELSE statsMemo
    /\ storage' = IF PunchesRebuilt THEN SaveEffect(PunchesValue) ELSE StorageAfterEffects
    /\ UNCHANGED <<punches, punchesShape>>

\* The insight a render of the queued updates of fetchAIInsights shows:
\* setAiInsight(insight) is queued unless getWorkInsights rejected.
QueuedInsight ==
    IF insightQueued = <<>> \/ insightQueued[1].insight = REJECTED
    THEN aiInsight
    ELSE insightQueued[1].insight

\* What a render that takes the queued updates of fetchAIInsights, if there
\* are any, is given: setAiInsight(insight).
RenderQueuedInsight ==
    /\ aiInsight' = QueuedInsight
    /\ lastResponse' = IF insightQueued = <<>> THEN lastResponse
                       ELSE insightQueued[1].response

\* That render committed: setIsGeneratingInsight(false) has been taken too.
CommitQueuedInsight ==
    /\ isGeneratingInsight' = (insightQueued = <<>> /\ isGeneratingInsight)
    /\ insightQueued' = <<>>

\* A render threw: the component tree is unmounted, and with it the list, the
\* memos and the queued updates are gone.
Unmounted ==
    /\ pc' = "crashed"
    /\ punches' = <<>>
    /\ punchesShape' = "json_array"
    /\ workDaysMemo' = <<>>
    /\ statsMemo' = stats(<<>>, <<>>, currentStatus(<<>>), now)
    /\ pending' = <<>>
    /\ insightQueued' = <<>>
    /\ UNCHANGED isGeneratingInsight

Init ==
    /\ now = 9 * HOUR_MS
    /\ tz = 0  \* the running application never reads the zone
    /\ storage \in {ABSENT} \cup ForeignStored
    /\ punches = <<>>
    /\ punchesShape = "json_array"
    /\ workDaysMemo = <<>>
    /\ statsMemo = stats(<<>>, <<>>, currentStatus(<<>>), now)
    /\ activeTab = "dashboard"
    /\ aiInsight = NULL_INSIGHT
    /\ isGeneratingInsight = FALSE
    /\ outstanding = 0
    /\ insightQueued = <<>>
    /\ lastResponse = "none"
    /\ pending = <<>>
    /\ pc = "mounting"
    /\ nextId = 0
    /\ beforeRestart = NoHistory

\* Time passes.
Tick ==
    /\ \E t \in ClockTimes : t > now /\ now' = t
    /\ UNCHANGED <<tz, storage, punches, punchesShape, pc, pending, activeTab,
                   workDaysMemo, statsMemo, aiInsight, isGeneratingInsight,
                   outstanding, insightQueued, lastResponse, nextId,
                   beforeRestart>>

\* The page is reloaded: a new App is constructed and rendered once.
Restart ==
    /\ FirstRender
    /\ beforeRestart' = [valid |-> pc = "ready" /\ punchesShape = "json_array",
                         list |-> punches]
    /\ UNCHANGED <<now, tz, storage, nextId>>

\* The two effects of the first render.
MountEffects ==
    /\ pc = "mounting"
    /\ pending' = PendingAfterEffects
    /\ storage' = StorageAfterEffects
    /\ pc' = PcAfterEffects
    /\ UNCHANGED <<now, tz, punches, punchesShape, activeTab, workDaysMemo,
                   statsMemo, aiInsight, isGeneratingInsight, outstanding,
                   insightQueued, lastResponse, nextId, beforeRestart>>

\* The queued updates are rendered, in a task of their own: the update of
\* the load effect, those of the clicks behind it and, being of the same
\* priority, those a completed fetchAIInsights queued.
CommitLoaded ==
    /\ pc = "loaded"
    /\ RenderQueuedInsight
    /\ LET value == QueuedValue(pending[1].set, pending[1].behind)
       IN IF RenderThrows(value, activeTab) \/ InsightRenderThrows(QueuedInsight, activeTab)
          THEN Unmounted
          ELSE /\ pc' = "committed"
               /\ pending' = <<>>
               /\ RenderPunches(value)
               /\ CommitQueuedInsight
    /\ UNCHANGED <<now, tz, storage, activeTab, outstanding, nextId, beforeRestart>>

\* The save effect of the render of the loaded list.
SaveLoaded ==
    /\ pc = "committed"
    /\ storage' = StorageAfterEffects
    /\ pc' = PcAfterEffects
    /\ UNCHANGED <<now, tz, punches, punchesShape, pending, activeTab,
                   workDaysMemo, statsMemo, aiInsight, isGeneratingInsight,
                   outstanding, insightQueued, lastResponse, nextId,
                   beforeRestart>>

\* A click on the punch button, which every render shows.  The click is
\* rendered at once, leaving the update of the load effect queued: the entry
\* is put in front of the rendered list and the save effect of that render
\* writes the list.  When the load effect has queued its update, the update
\* of the click is queued behind it and is applied again when that update is
\* rendered; when the effects of the first render have not run yet, they run
\* between the handler and its render, and the update of the load effect
\* replaces what the click rendered.
ClickPunch ==
    /\ pc # "crashed"
    /\ nextId < MaxPunches
    /\ nextId' = nextId + 1
    /\ LET type == OfferedPunch(statsMemo.status)
           value == ArrayOf(handlePunch(punches, type, nextId + 1, now))
       IN /\ RenderPunches(value)
          /\ storage' = SaveEffect(value)
          /\ pending' = IF pc = "loaded"
                        THEN <<[pending[1] EXCEPT !.behind =
                                  Append(@, [id |-> nextId + 1, type |-> type,
                                             timestamp |-> now])]>>
                        ELSE PendingAfterEffects
          /\ pc' = PcAfterRender(value, aiInsight, activeTab)
    /\ beforeRestart' = NoHistory
    /\ UNCHANGED <<now, tz, activeTab, aiInsight, isGeneratingInsight,
                   outstanding, insightQueued, lastResponse>>

\* setActiveTab(tab) from the sidebar or the bottom bar, rendered at once.
\* A click on the tab that is shown changes no state; it is rendered all the
\* same while another update is queued.
SwitchTab ==
    /\ pc # "crashed"
    /\ \E tab \in Tabs :
          /\ tab # activeTab \/ pc = "loaded" \/ insightQueued # <<>>
          /\ activeTab' = tab
          /\ IF RenderThrows(PunchesValue, tab) \/ InsightRenderThrows(aiInsight, tab)
             THEN /\ Unmounted
                  /\ storage' = StorageAfterEffects
             ELSE /\ pc' = PcAfterEffects
                  /\ pending' = PendingAfterEffects
                  /\ RenderSamePunches
                  /\ UNCHANGED <<isGeneratingInsight, insightQueued>>
    /\ UNCHANGED <<now, tz, aiInsight, outstanding, lastResponse, nextId,
                   beforeRestart>>

\* fetchAIInsights from the button of the insights tab, as far as the task of
\* the click takes it: setIsGeneratingInsight(true) is rendered at once.  With
\* a client constructed the call of getWorkInsights is left outstanding.  When
\* new GoogleGenAI throws the call rejects at once, and catch and finally run
\* before the task ends: setIsGeneratingInsight(false) is rendered at once
\* too, or is queued for a later task, as the browser still names the click
\* as the current event or not.
FetchAIInsights ==
    /\ pc # "crashed"
    /\ activeTab = "insights"
    /\ ~InsightButtonDisabled(isGeneratingInsight, workDaysMemo)
    /\ Len(workDaysMemo) # 0
    /\ \/ /\ isGeneratingInsight' = TRUE
          /\ outstanding' = outstanding + 1
          /\ UNCHANGED <<insightQueued, lastResponse>>
       \/ /\ isGeneratingInsight' = FALSE
          /\ lastResponse' = "no_client"
          /\ UNCHANGED <<outstanding, insightQueued>>
       \/ /\ isGeneratingInsight' = TRUE
          /\ insightQueued' = <<[insight |-> getWorkInsights("no_client"),
                                 response |-> "no_client"]>>
          /\ UNCHANGED <<outstanding, lastResponse>>
    /\ pending' = PendingAfterEffects
    /\ pc' = PcAfterRender(PunchesValue, aiInsight, activeTab)
    /\ RenderSamePunches
    /\ UNCHANGED <<now, tz, activeTab, aiInsight, nextId, beforeRestart>>

\* fetchAIInsights from its await on, for a call left outstanding: the call of
\* getWorkInsights settles and the request is over; setAiInsight(insight) and
\* setIsGeneratingInsight(false) are queued for a render in a later task.
\* Nothing is queued when nothing is mounted.
InsightReturns ==
    /\ outstanding > 0
    /\ outstanding' = outstanding - 1
    /\ \E response \in Responses \ {"no_client"} :
          insightQueued' = IF pc = "crashed" THEN <<>>
                           ELSE <<[insight |-> getWorkInsights(response),
                                   response |-> response]>>
    /\ UNCHANGED <<now, tz, storage, punches, punchesShape, pc, pending, activeTab,
                   workDaysMemo, statsMemo, aiInsight, isGeneratingInsight,
                   lastResponse, nextId, beforeRestart>>

\* The updates a completed fetchAIInsights queued are rendered, in a task of
\* their own (with the update of the load effect, when that is queued too:
\* CommitLoaded).
RenderInsight ==
    /\ pc \in {"committed", "ready"}
    /\ insightQueued # <<>>
    /\ RenderQueuedInsight
    /\ storage' = StorageAfterEffects
    /\ IF RenderThrows(PunchesValue, activeTab) \/ InsightRenderThrows(QueuedInsight, activeTab)
       THEN Unmounted
       ELSE /\ pc' = PcAfterEffects
            /\ CommitQueuedInsight
            /\ UNCHANGED <<punches, punchesShape, pending, workDaysMemo, statsMemo>>
    /\ UNCHANGED <<now, tz, activeTab, outstanding, nextId, beforeRestart>>

Next ==
    \/ Tick
    \/ Restart
    \/ MountEffects
    \/ CommitLoaded
    \/ SaveLoaded
    \/ ClickPunch
    \/ SwitchTab
    \/ FetchAIInsights
    \/ InsightReturns
    \/ RenderInsight

Spec == Init /\ [][Next]_vars

----------------------------------------------------------------------------
(* The aggregation on its own: any punch list, read at any instant *)

Entries == PunchTimes \X Types

MakeList(f) ==
    [i \in DOMAIN f |-> [id |-> i, type |-> f[i][2], timestamp |-> f[i][1]]]

InitAgg ==
    /\ now \in NowTimes
    /\ tz \in TZOffsets
    /\ \E n \in 0..MaxListLen : \E f \in [1..n -> Entries] : punches = MakeList(f)
    /\ punchesShape = "json_array"
    /\ storage = ABSENT
    /\ workDaysMemo = <<>>
    /\ statsMemo = stats(<<>>, <<>>, currentStatus(<<>>), now)
    /\ activeTab = "dashboard"
    /\ aiInsight = NULL_INSIGHT
    /\ isGeneratingInsight = FALSE
    /\ outstanding = 0
    /\ insightQueued = <<>>
    /\ lastResponse = "none"
    /\ pending = <<>>
    /\ pc = "input"
    /\ nextId = 0
    /\ beforeRestart = NoHistory

\* One render of the list: workDaysData, currentStatus and stats.
Aggregate ==
    /\ pc = "input"
    /\ pc' = "computed"
    /\ workDaysMemo' = workDaysData(punches, now)
    /\ statsMemo' = stats(punches, workDaysData(punches, now), currentStatus(punches), now)
    /\ UNCHANGED <<now, tz, storage, punches, punchesShape, pending, activeTab,
                   aiInsight, isGeneratingInsight, outstanding, insightQueued,
                   lastResponse, nextId, beforeRestart>>

NextAgg == Aggregate

SpecAgg == InitAgg /\ [][NextAgg]_vars

----------------------------------------------------------------------------
(* Vocabulary of the properties *)

Elements(list) == {list[i] : i \in 1..Len(list)}

\* The calendar date of ts in the local zone, zone ms east of UTC.
LocalDate(ts, zone) == (ts + zone) \div DAY_MS

\* The instant of the local midnight that starts a local date.
LocalMidnight(date, zone) == date * DAY_MS - zone

OneDate(list) ==
    \A p, q \in Elements(list) : ISODate(p.timestamp) = ISODate(q.timestamp)

\* Orders the events in time, an OUT before an IN stamped at the same instant.
TimeKey(p) == 2 * p.timestamp + (IF p.type = "IN" THEN 1 ELSE 0)

\* How many events of the list come before its i-th event in time.
Earlier(list, i) ==
    Cardinality({j \in 1..Len(list) : TimeKey(list[j]) < TimeKey(list[i])})

\* IN_1 < OUT_1 <= IN_2 < OUT_2 ... on one date, whatever the stored order:
\* in time order the events are IN, OUT, IN, OUT, ...
IsPairedDay(list) ==
    /\ Len(list) > 0
    /\ Len(list) % 2 = 0
    /\ OneDate(list)
    /\ \A i, j \in 1..Len(list) : i # j => TimeKey(list[i]) # TimeKey(list[j])
    /\ \A i \in 1..Len(list) : list[i].type = "IN" <=> Earlier(list, i) % 2 = 0

DistinctTimestamps(list) ==
    \A i, j \in 1..Len(list) : i # j => list[i].timestamp # list[j].timestamp

\* The sum of OUT_i - IN_i over the pairs.
RECURSIVE PairedMs(_)
PairedMs(list) ==
    IF list = <<>> THEN 0
    ELSE PairedMs(Front(list))
         + (IF Last(list).type = "OUT" THEN Last(list).timestamp ELSE -Last(list).timestamp)

\* hundredths / 100 is ms milliseconds in hours rounded to 2 decimals: no
\* other two-decimal number of hours is nearer to it.
IsHoursTo2Decimals(hundredths, ms) ==
    36000 * hundredths - 18000 <= ms /\ ms <= 36000 * hundredths + 18000

\* tenths / 10 is the mean of count numbers that sum to hundredths / 100,
\* rounded to 1 decimal.
IsMeanTo1Decimal(tenths, hundredths, count) ==
    /\ 10 * count * tenths - 5 * count <= hundredths
    /\ hundredths <= 10 * count * tenths + 5 * count

\* The sum of the days' totals, in hundredths of an hour.
RECURSIVE TotalHundredths(_)
TotalHundredths(days) ==
    IF days = <<>> THEN 0 ELSE TotalHundredths(Front(days)) + Last(days).totalHours

PairedDayTotalIsSum(list, workDays) ==
    /\ Len(workDays) = 1
    /\ workDays[1].date = ISODate(list[1].timestamp)
    /\ IsHoursTo2Decimals(workDays[1].totalHours, PairedMs(list))

\* C1 as stated: for a list of paired IN/OUT events of one date with
\* IN_1 < OUT_1 <= IN_2 < OUT_2 ..., stored in any order, the date's total is
\* the sum of OUT_i - IN_i in hours, rounded to 2 decimals.
C1_PairedDayTotal_AsStated ==
    (pc = "computed" /\ IsPairedDay(punches))
        => PairedDayTotalIsSum(punches, workDaysMemo)

\* C1 as amended: the same with all timestamps distinct, IN_1 < OUT_1 < IN_2 <
\* OUT_2 ...: the date's total is the sum of OUT_i - IN_i in hours, rounded
\* to 2 decimals, in whatever order the list stores the events.
C1_PairedDayTotal ==
    (pc = "computed" /\ IsPairedDay(punches) /\ DistinctTimestamps(punches))
        => PairedDayTotalIsSum(punches, workDaysMemo)

\* Two pairs of day 0 (09:00-12:03 and 17:03:18-23:00) stored out of time
\* order: 8.995 hours, half-way between 8.99 and 9.00, shown as 8.99.
C1_Witness ==
    /\ pc = "computed"
    /\ IsPairedDay(punches) /\ DistinctTimestamps(punches)
    /\ Len(punches) = 4
    /\ punches[1].timestamp > punches[2].timestamp
    /\ workDaysMemo[1].totalHours = 899

----------------------------------------------------------------------------
\* The session a day's processing leaves open: its last event, when an IN.
HasOpenSession(day) == Last(day.punches).type = "IN"

\* What the day's closed pairs amount to, in ms.
ClosedMs(day) == PairPunches(day.punches).totalMs

OpenSessionCredited(day, clock) ==
    IsHoursTo2Decimals(day.totalHours,
                       ClosedMs(day) + (clock - Last(day.punches).timestamp))

OpenSessionIgnored(day) ==
    IsHoursTo2Decimals(day.totalHours, ClosedMs(day))

\* C2: a day whose processing leaves an IN unmatched has (now - IN) in its
\* total when it is the current date, and nothing for that IN when it is a
\* past date.
C2_OpenSessionCredit ==
    pc = "computed" =>
        \A k \in 1..Len(workDaysMemo) :
            LET day == workDaysMemo[k]
            IN HasOpenSession(day) =>
                  /\ day.date = ISODate(now) => OpenSessionCredited(day, now)
                  /\ day.date < ISODate(now) => OpenSessionIgnored(day)

\* Read at 09:00 of day 7: day 7 has an IN of 01:00 still open, credited 8 h;
\* day 0 has 09:00-12:03 closed and an IN left open, which counts for nothing.
C2_Witness ==
    /\ pc = "computed"
    /\ Len(workDaysMemo) = 2
    /\ HasOpenSession(workDaysMemo[1]) /\ workDaysMemo[1].date = ISODate(now)
    /\ workDaysMemo[1].totalHours = 800
    /\ HasOpenSession(workDaysMemo[2]) /\ workDaysMemo[2].date < ISODate(now)
    /\ workDaysMemo[2].totalHours = 305

----------------------------------------------------------------------------
\* The event created last: ids are handed out in creation order.
MostRecentlyCreated(list) ==
    CHOOSE p \in Elements(list) : \A q \in Elements(list) : q.id <= p.id

\* C3: while the component is mounted, the status is PUNCHED_IN exactly when
\* the most recently created event is an IN; with an empty store the status
\* is PUNCHED_OUT and lastPunch is null.
C3_StatusFollowsLastEvent ==
    pc # "crashed" =>
        /\ statsMemo.status = "PUNCHED_IN"
              <=> (punches # <<>> /\ MostRecentlyCreated(punches).type = "IN")
        /\ punches # <<>> => statsMemo.lastPunch = <<MostRecentlyCreated(punches)>>
        /\ punches = <<>> =>
              statsMemo.status = "PUNCHED_OUT" /\ statsMemo.lastPunch = <<>>

\* Three appends, the last an IN.
C3_Witness ==
    /\ pc = "ready"
    /\ Len(punches) = 3
    /\ punches[1].id = 3
    /\ statsMemo.status = "PUNCHED_IN"

----------------------------------------------------------------------------
\* C4: a reload of the settled application (every append persisted) ends with
\* the in-memory list and the stored list both equal, in order, to the list
\* held before the reload.
C4_RoundTrip ==
    (pc = "ready" /\ beforeRestart.valid) =>
        /\ punches = beforeRestart.list
        /\ storage = JSON_stringify(ArrayOf(beforeRestart.list))
        /\ LoadEffect(storage) = <<ArrayOf(beforeRestart.list)>>

C4_Witness ==
    /\ pc = "ready"
    /\ beforeRestart.valid
    /\ Len(beforeRestart.list) >= 2
    /\ punches = beforeRestart.list

----------------------------------------------------------------------------
\* C5: what is shown is the aggregation of the current list at the current
\* instant, also after time has passed without a punch.
C5_ReadsAreFresh ==
    pc = "ready" =>
        /\ workDaysMemo = workDaysData(punches, now)
        /\ statsMemo = stats(punches, workDaysData(punches, now), currentStatus(punches), now)

----------------------------------------------------------------------------
\* C6: every event is bucketed under the local calendar date of its
\* timestamp, and an open session is credited exactly on the local calendar
\* date of now.
C6_LocalCalendarDates ==
    pc = "computed" =>
        \A k \in 1..Len(workDaysMemo) :
            LET day == workDaysMemo[k]
            IN /\ \A p \in Elements(day.punches) : day.date = LocalDate(p.timestamp, tz)
               /\ HasOpenSession(day) =>
                     IF day.date = LocalDate(now, tz)
                     THEN OpenSessionCredited(day, now)
                     ELSE OpenSessionIgnored(day)

----------------------------------------------------------------------------
\* The WorkDays whose date, at local midnight, lies in the 7 x 24 hours before
\* the clock.
WeekBefore(workDays, clock, zone) ==
    SelectSeq(workDays,
              LAMBDA d : /\ LocalMidnight(d.date, zone) <= clock
                         /\ clock - LocalMidnight(d.date, zone) < WEEK_MS)

\* C7: totalHoursThisWeek and averageDailyHours are the sum and the mean over
\* exactly the WorkDays whose date, at local midnight, lies in the 7 x 24
\* hours before now; the mean over no day is 0.
C7_WeekWindow ==
    pc = "computed" =>
        LET week == WeekBefore(workDaysMemo, now, tz)
        IN /\ IsMeanTo1Decimal(statsMemo.totalHoursThisWeek, TotalHundredths(week), 1)
           /\ IF Len(week) = 0
              THEN statsMemo.averageDailyHours = 0
              ELSE IsMeanTo1Decimal(statsMemo.averageDailyHours,
                                    TotalHundredths(week), Len(week))

----------------------------------------------------------------------------
\* C8: the insight shown after a request is the fallback for every response
\* but a well-shaped one, and the service's insight for a well-shaped one.
C8_FallbackOnEveryDeviation ==
    lastResponse # "none" =>
        aiInsight = (IF lastResponse = "well_shaped"
                     THEN [shape |-> "AIInsight", origin |-> "service"]
                     ELSE FALLBACK_INSIGHT)

----------------------------------------------------------------------------
\* A request starts only with the flag clear and WorkDay data present, and
\* the flag clears, short of a reload, only when no request is outstanding and
\* the one that was has completed.
StartsAndClears ==
    /\ outstanding' > outstanding =>
          ~isGeneratingInsight /\ Len(workDaysMemo) > 0
    /\ (isGeneratingInsight /\ ~isGeneratingInsight' /\ pc' # "mounting") =>
          /\ outstanding = 0 /\ outstanding' = 0
          /\ insightQueued # <<>> /\ lastResponse' \in Responses

\* C9 as stated: at most one request is outstanding and the flag is set
\* exactly while one is; a request starts only with the flag clear and
\* WorkDay data present; the flag clears only after the outstanding request
\* has completed.
C9_SingleOutstandingRequest_AsStated ==
    /\ [](outstanding <= 1)
    /\ [](pc # "crashed" => (isGeneratingInsight <=> outstanding = 1))
    /\ [][StartsAndClears]_vars

\* C9 as amended: the same, with the flag set exactly from the start of a
\* request to the render that follows its completion.
C9_SingleOutstandingRequest ==
    /\ [](outstanding <= 1)
    /\ [](pc # "crashed" =>
             (isGeneratingInsight <=> (outstanding = 1 \/ insightQueued # <<>>)))
    /\ [][StartsAndClears]_vars

\* A second request has completed and its updates wait for their render: the
\* flag is still set with no request outstanding.
C9_Witness ==
    /\ pc # "crashed"
    /\ isGeneratingInsight
    /\ outstanding = 0
    /\ insightQueued # <<>>
    /\ lastResponse \in Responses
    /\ Len(workDaysMemo) > 0

----------------------------------------------------------------------------
\* A value is a list of punch records: an array whose every element has an id
\* the application handed out and the type IN or OUT.
IsPunchList(value) ==
    /\ value.shape = "json_array"
    /\ \A p \in Elements(value.list) : p.id >= 1 /\ p.type \in Types

\* C10: loading never crashes the application (a render throws only for an
\* insight it cannot show), the load effect hands on nothing but a list of
\* punch records, and no other record ever enters the in-memory list.
C10_LoadFailsClosed ==
    /\ pc = "crashed" => InsightRenderThrows(aiInsight, activeTab)
    /\ pending # <<>> => IsPunchList(pending[1].set)
    /\ IsPunchList(PunchesValue)

----------------------------------------------------------------------------
\* The degenerate lists: empty, OUT events only, or one timestamp throughout.
Degenerate(list) ==
    \/ list = <<>>
    \/ \A p \in Elements(list) : p.type = "OUT"
    \/ \A p, q \in Elements(list) : p.timestamp = q.timestamp

AllZero(workDays, figures) ==
    /\ \A k \in 1..Len(workDays) : workDays[k].totalHours = 0
    /\ figures.totalHoursThisWeek = 0
    /\ figures.averageDailyHours = 0

\* A degenerate list leaves an IN open on the current date when the event it
\* stores last is an IN stamped on the date of the clock.
LeftOpenToday(list, clock) ==
    /\ list # <<>>
    /\ Last(list).type = "IN"
    /\ ISODate(Last(list).timestamp) = ISODate(clock)

\* C11 as stated: for the empty list, a list of OUT events only and a list
\* with one timestamp throughout, every WorkDay total and both dashboard
\* figures are 0.
C11_DegenerateIsZero_AsStated ==
    (pc = "computed" /\ Degenerate(punches)) => AllZero(workDaysMemo, statsMemo)

\* C11 as amended: the same, unless the list leaves an IN open on the current
\* date; then the one day's total is (now - IN) in hours.
C11_DegenerateIsZero ==
    (pc = "computed" /\ Degenerate(punches)) =>
        IF LeftOpenToday(punches, now)
        THEN /\ Len(workDaysMemo) = 1
             /\ IsHoursTo2Decimals(workDaysMemo[1].totalHours,
                                   now - Last(punches).timestamp)
        ELSE AllZero(workDaysMemo, statsMemo)

\* Three events of one instant of the current date, an IN among them and the
\* one stored last an OUT: the day totals 0.
C11_Witness ==
    /\ pc = "computed"
    /\ Len(punches) = 3
    /\ \A p, q \in Elements(punches) : p.timestamp = q.timestamp
    /\ \E p \in Elements(punches) : p.type = "IN"
    /\ Last(punches).type = "OUT"
    /\ ISODate(punches[1].timestamp) = ISODate(now)
    /\ Len(workDaysMemo) = 1 /\ workDaysMemo[1].totalHours = 0

----------------------------------------------------------------------------
\* C12: every WorkDay's totalHours is non-negative, whatever the list and the
\* instant it is read at.
C12_TotalsNonNegative ==
    pc = "computed" => \A k \in 1..Len(workDaysMemo) : workDaysMemo[k].totalHours >= 0

----------------------------------------------------------------------------
\* The list is in creation order from its back to its front and alternates
\* IN, OUT, IN, ... from the event created first.
AlternatesFromIn(list) ==
    /\ \A i \in 1..Len(list) :
          list[i].type = (IF (Len(list) - i) % 2 = 0 THEN "IN" ELSE "OUT")
    /\ \A i \in 1..(Len(list) - 1) : list[i].id > list[i + 1].id

\* C13: every list of events punched through the interface alternates IN,
\* OUT, IN, ... in creation order, and a punch puts one event at the front and
\* leaves the others as they were.
C13_PunchesAlternate ==
    /\ []((pc # "crashed" /\ IsPunchList(PunchesValue))
             => AlternatesFromIn(punches))
    /\ [][nextId' # nextId =>
             /\ Len(punches') = Len(punches) + 1
             /\ Tail(punches') = punches
             /\ punches'[1].id = nextId'
             /\ punches'[1].timestamp = now]_vars

====
